---- MODULE Spec2Model ----
(***************************************************************************)
(* State-machine model of the Wikipedia research agent:                    *)
(*   core/langgraph_agent.py  WikipediaAgent.__init__ / WikipediaAgent.query*)
(*   core/rag.py              create_rag_tool                              *)
(* The react-agent executor built by create_react_agent (agent node, tools *)
(* node, MemorySaver checkpointer) is modelled superstep by superstep; the *)
(* language model and the Wikipedia lookup are the environment.            *)
(***************************************************************************)
EXTENDS Naturals, Sequences, FiniteSets, TLC

VARIABLES
    env,            \* which environment drives the agent: "wide", "tools", "deep",
                    \* "stub", "config" or "terminal"
    keys,           \* the provider credentials read at import (langgraph_agent.py:28-30)
    agent,          \* whether WikipediaAgent() has produced an agent
    term,           \* the terminal interface: position of main and what it did
    USE_RAG,        \* configuration flag read at import (langgraph_agent.py:33)
    LLM,            \* configured model name (langgraph_agent.py:32)
    tools,          \* self.tools
    model,          \* self.model (the provider binding)
    agent_executor, \* self.agent_executor
    memory,         \* self.memory: checkpointed message list per thread id
    pc,             \* per thread id: position of the query call on that thread
    input,          \* per thread id: input_text of the current / last query call
    message,        \* per thread id: the local variable `message` of query
    step,           \* per thread id: supersteps executed by the current run
    pending,        \* per thread id: tool calls of the tools node in progress
    result,         \* per thread id: outcome of the last query call
    failure,        \* per thread id: the exception the last query call met, if any
    base,           \* per thread id: history of the thread when the call started
    submitted,      \* per thread id: history handed to the model at the last consultation
    consults,       \* per thread id: number of model consultations so far
    turns           \* number of query calls issued so far

vars == <<env, keys, agent, term, USE_RAG, LLM, tools, model, agent_executor,
          memory, pc, input, message, step, pending, result, failure, base,
          submitted, consults, turns>>

config == <<env, keys, agent, USE_RAG, LLM, tools, model, agent_executor>>

----------------------------------------------------------------------------
(* Bounds of the model *)

\* query calls issued in one behaviour
MaxTurns == 2
\* tool-call rounds the language model asks for in one query ("wide" environment)
MaxToolRounds == 1
\* states a stubbed stream yields to one query call ("stub" environment)
MaxYields == 2
MaxLines == 2

(* Program constants *)

\* supersteps one run of the executor may take: query passes no
\* "recursion_limit" in config, so the executor's default applies
RecursionLimit == 25

DefaultThreadId == "abc123"
ThreadIds == {DefaultThreadId, "session-2"}

DefaultLLM == "claude-3-5-sonnet-latest"
LLMNames == {DefaultLLM, "gemini-1.5-pro", "gpt-4o"}

\* input_text values: any text, the empty one included; where several calls
\* follow one another each asks a question of its own
Questions == <<"Tell me about quantum physics", "Who was Max Planck?",
               "And Niels Bohr?", "What is entanglement?">>
Inputs(e, n) ==
    IF e = "wide" THEN {Questions[(n % Len(Questions)) + 1]}
    ELSE {Questions[1], ""}

----------------------------------------------------------------------------
(* Messages *)

NoCalls == <<>>

HumanMessage(content) ==
    [type |-> "human", content |-> content, tool_calls |-> NoCalls,
     name |-> "", tool_call_id |-> "", status |-> ""]

AIMessage(content, calls) ==
    [type |-> "ai", content |-> content, tool_calls |-> calls,
     name |-> "", tool_call_id |-> "", status |-> ""]

ToolMessage(content, name, id, status) ==
    [type |-> "tool", content |-> content, tool_calls |-> NoCalls,
     name |-> name, tool_call_id |-> id, status |-> status]

\* the local `message` before the first iteration of the for loop
Unbound ==
    [type |-> "unbound", content |-> "", tool_calls |-> NoCalls,
     name |-> "", tool_call_id |-> "", status |-> ""]

\* a last message that is a tuple (the isinstance branch of the loop body)
TupleMessage ==
    [type |-> "tuple", content |-> "", tool_calls |-> NoCalls,
     name |-> "", tool_call_id |-> "", status |-> ""]

\* str.startswith
StartsWith(s, prefix) ==
    Len(s) >= Len(prefix) /\ SubSeq(s, 1, Len(prefix)) = prefix

IsPrefix(s, t) == Len(s) <= Len(t) /\ SubSeq(t, 1, Len(s)) = s
IsStrictPrefix(s, t) == Len(s) < Len(t) /\ SubSeq(t, 1, Len(s)) = s

----------------------------------------------------------------------------
(* Construction: WikipediaAgent.__init__ *)

\* the system prompt the import selects by USE_RAG (no SYSTEM_PROMPT override set)
SystemPrompt(use_rag) ==
    IF use_rag THEN "research assistant with a RAG tool"
               ELSE "research assistant making multiple Wikipedia searches"

\* a mutant of SelectTools: both variants registered
SelectToolsBoth(use_rag) == <<"wikipedia_rag", "wikipedia_search">>

\* self.tools: the tool create_rag_tool names "wikipedia_rag", or wikipedia_search
SelectTools(use_rag) ==
    IF use_rag THEN <<"wikipedia_rag">> ELSE <<"wikipedia_search">>

\* self.model: chosen by the prefix of the configured model name
SelectModel(llm) ==
    IF StartsWith(llm, "claude") THEN "ChatAnthropic"
    ELSE IF StartsWith(llm, "gemini") THEN "ChatGoogleGenerativeAI"
    ELSE "ChatOpenAI"

\* self.agent_executor: the model, the tools, the checkpointer and the prompt
\* bound together; handle_tool_errors is the tools node's treatment of an
\* exception raised by a tool, which the installed executor decides
create_react_agent(m, ts, prompt, handle) ==
    [model |-> m, tools |-> ts, checkpointer |-> "MemorySaver",
     state_modifier |-> prompt, handle_tool_errors |-> handle]

\* the providers and the values a credential may have: the key the provider
\* issued, a key it does not know, or "" (the default when the variable is unset)
Providers == {"anthropic", "google", "openai"}
ValidKey == "sk-valid"
KeyValues == {ValidKey, "sk-wrong", ""}
ValidKeys == [p \in Providers |-> ValidKey]

\* a model name no provider serves; its prefix still selects a binding
MisspeltLLM == "claude-3-5-sonet-latest"

\* the provider a binding talks to
ProviderOf(m) ==
    IF m = "ChatAnthropic" THEN "anthropic"
    ELSE IF m = "ChatGoogleGenerativeAI" THEN "google"
    ELSE "openai"

\* ChatAnthropic(...), ChatGoogleGenerativeAI(...), ChatOpenAI(...): the
\* binding is built from the name and the key without a request to the
\* provider; whether an empty key is refused is up to the binding
BindingOutcomes(key) == IF key = "" THEN {"ok", "raise"} ELSE {"ok"}

\* create_rag_tool(): the corpus is embedded with the OpenAI embeddings while
\* the tool is built, a request the provider refuses without its key
RagToolOutcome(use_rag, ks) ==
    IF use_rag /\ ks["openai"] # ValidKey THEN "raise" ELSE "ok"

\* the attributes of an agent that was not (yet) constructed
NoExecutor ==
    [model |-> "", tools |-> <<>>, checkpointer |-> "",
     state_modifier |-> "", handle_tool_errors |-> FALSE]

----------------------------------------------------------------------------
(* The direct-search tool: wikipedia_search(queries) *)

Separator == "\n\n"

RECURSIVE JoinFrom(_, _)
JoinFrom(results, i) ==
    IF i > Len(results) THEN ""
    ELSE IF i = Len(results) THEN results[i]
    ELSE results[i] \o Separator \o JoinFrom(results, i + 1)

\* a mutant of Join: the results joined in reverse order
RECURSIVE JoinReversedFrom(_, _)
JoinReversedFrom(results, i) ==
    IF i < 1 THEN ""
    ELSE IF i = 1 THEN results[i]
    ELSE results[i] \o Separator \o JoinReversedFrom(results, i - 1)

JoinReversed(results) == JoinReversedFrom(results, Len(results))

\* "\n\n".join(results)
Join(results) == JoinFrom(results, 1)

\* what a successful lookup returns for a query (wikipedia.run(query), or the
\* passages the retriever of the indexed tool returns)
WikipediaRun(name, query) ==
    IF name = "wikipedia_rag" THEN "Passage: " \o query ELSE "Page: " \o query

\* what a failed lookup raises
LookupErrors == {"HTTPSConnectionPool: Max retries exceeded"}

\* the invocation of one requested tool call begins: results = []
ToolStart(call) ==
    [id |-> call.id, name |-> call.name, queries |-> call.queries,
     looked |-> <<>>, results |-> <<>>, status |-> "running",
     output |-> "", error |-> ""]

\* the query the for loop of the tool looks up next
NextQuery(p) == p.queries[Len(p.looked) + 1]

\* one iteration of the for loop: results.append(wikipedia.run(query))
AfterLookup(p, r) ==
    [p EXCEPT !.looked = Append(@, NextQuery(p)), !.results = Append(@, r)]

\* a mutant of LookupRaises: the failure is swallowed and the results so far
\* are returned
LookupRaisesPartial(p, e) ==
    [p EXCEPT !.looked = Append(@, NextQuery(p)), !.status = "ok",
              !.output = Join(p.results)]

\* wikipedia.run(query) raises: nothing in the tool catches it, the call ends
LookupRaises(p, e) ==
    [p EXCEPT !.looked = Append(@, NextQuery(p)), !.status = "error",
              !.error = e]

\* the for loop is exhausted: return "\n\n".join(results)
ToolReturn(p) == [p EXCEPT !.status = "ok", !.output = Join(p.results)]

----------------------------------------------------------------------------
(* The facade: the body of WikipediaAgent.query *)

NoResult == [kind |-> "none", value |-> ""]

\* message = s["messages"][-1]
LoopBody(messages) == messages[Len(messages)]

\* after the for loop: logger.info(... message.content) ; return message.content
AfterLoop(m) ==
    IF m.type = "unbound"
    THEN [kind |-> "raise",
          value |-> "local variable 'message' referenced before assignment"]
    ELSE IF m.type = "tuple"
    THEN [kind |-> "raise", value |-> "'tuple' object has no attribute 'content'"]
    ELSE [kind |-> "return", value |-> m.content]

\* a mutant of QueryExcept: no except clause, the exception leaves query
QueryReraise(e) == [kind |-> "raise", value |-> e]

\* except Exception as e: return f"An error occurred: {str(e)}"
QueryExcept(e) == [kind |-> "return", value |-> "An error occurred: " \o e]

\* the try statement around the stream and the return
Try(outcome) ==
    IF outcome.kind = "raise" THEN QueryExcept(outcome.value) ELSE outcome

\* where the call is once the try statement has ended
AfterTry(outcome) == IF outcome.kind = "return" THEN "Done" ELSE "escaped"

\* the exception a call met
NoFailure == [raised |-> FALSE, text |-> ""]
Raised(e) == [raised |-> TRUE, text |-> e]
Met(outcome) == IF outcome.kind = "raise" THEN Raised(outcome.value) ELSE NoFailure

----------------------------------------------------------------------------
(* The executor: agent_executor.stream(inputs, config, stream_mode="values") *)

\* a mutant of ThreadKey: every thread id reads and writes one checkpoint
ThreadKeyShared(thread_id) == DefaultThreadId

\* config = {"configurable": {"thread_id": thread_id}}: the key of the
\* checkpoint the run loads and saves
ThreadKey(thread_id) == thread_id

\* a mutant of add_messages: the update replaces the stored messages
add_messages_replace(left, right) == right

\* the reducer of the "messages" channel: the update is appended
add_messages(left, right) == left \o right

\* a mutant of Checkpointed: a failed superstep wipes the thread
CheckpointedReset(history) == <<>>

\* the state of a thread after a superstep failed: the checkpoint saved after
\* the last completed superstep, the writes of the failed one are dropped
Checkpointed(history) == history

\* what the language model may answer
AnswerTexts == {"Quantum physics is the study of matter and energy.", ""}
ModelErrors == {"Error code: 429 - rate limit exceeded"}

Q0 == <<>>
Q1 == <<"quantum physics">>
Q1b == <<"Max Planck">>
Q2 == <<"quantum physics", "Max Planck">>
Q3 == <<"quantum physics", "Max Planck", "Niels Bohr">>

\* the thread ids and the number of query calls of each environment
Threads == IF env \in {"wide", "stub"} THEN ThreadIds ELSE {DefaultThreadId}
TurnLimit == IF env \in {"wide", "stub"} THEN MaxTurns ELSE 1

\* the argument lists of the tool calls one model response may request
Batches ==
    IF env = "tools"
    THEN IF USE_RAG THEN {<<Q1>>, <<Q1, Q1b>>}
                    ELSE {<<Q1>>, <<Q0, Q3>>, <<Q2, Q1b>>}
    ELSE {<<Q1>>}

\* the language model asks for tools for as long as it likes; the "wide"
\* environment stops asking after MaxToolRounds rounds
CanRequestTools(t) == env = "deep" \/ step[t] \div 2 < MaxToolRounds

\* the provider serves a request only with its key and a model it knows
AuthenticationError == "Error code: 401 - invalid x-api-key"
NotFoundError == "Error code: 404 - model not found"
Rejection ==
    IF keys[ProviderOf(model)] # ValidKey THEN {AuthenticationError}
    ELSE IF LLM \notin LLMNames THEN {NotFoundError}
    ELSE {}

ModelResponses(t) ==
    IF Rejection # {}
    THEN {[kind |-> "error", content |-> "", args |-> <<>>, error |-> e] :
             e \in Rejection}
    ELSE {[kind |-> "final", content |-> c, args |-> <<>>, error |-> ""] :
             c \in AnswerTexts}
         \cup {[kind |-> "error", content |-> "", args |-> <<>>, error |-> e] :
             e \in ModelErrors}
         \cup (IF CanRequestTools(t)
               THEN {[kind |-> "tools", content |-> "", args |-> b, error |-> ""] :
                        b \in Batches}
               ELSE {})

\* a lookup returns or raises; in the "deep" environment every lookup returns
LookupOutcomes == IF env = "deep" THEN {"ok"} ELSE {"ok"} \cup LookupErrors

CallId(n, i) == "call_" \o ToString(n) \o "_" \o ToString(i)

\* the tool calls of a model response: the model names the one bound tool
ToolCalls(args, n) ==
    [i \in 1..Len(args) |->
        [id |-> CallId(n, i), name |-> tools[1], queries |-> args[i]]]

\* the run is at its last permitted superstep (the executor's is_last_step)
IsLastStep(t) == step[t] + 1 >= RecursionLimit

NeedMoreSteps == "Sorry, need more steps to process this request."

\* the agent node: the response of the model becomes the next message; a
\* response that asks for tools at the last permitted step is replaced
AgentNode(resp, n, last) ==
    IF resp.kind = "tools" /\ last THEN AIMessage(NeedMoreSteps, NoCalls)
    ELSE IF resp.kind = "tools" THEN AIMessage(resp.content, ToolCalls(resp.args, n))
    ELSE AIMessage(resp.content, NoCalls)

\* a mutant of ShouldContinue: the loop ends after the first model response
ShouldContinueNever(m) == "end"

\* the conditional edge after the agent node
ShouldContinue(m) == IF m.tool_calls = NoCalls THEN "end" ELSE "continue"

ErrorTemplate(e) == "Error: " \o e \o "\n Please fix your mistakes."

\* the message the tools node writes for one finished tool call
ToolResult(p) ==
    IF p.status = "ok" THEN ToolMessage(p.output, p.name, p.id, "success")
    ELSE ToolMessage(ErrorTemplate(p.error), p.name, p.id, "error")

\* a mutant of ToolResults: the messages are written in reverse order
ToolResultsReversed(ps) == [i \in 1..Len(ps) |-> ToolResult(ps[Len(ps) + 1 - i])]

\* the update of the tools node: one message per call, in the order requested
ToolResults(ps) == [i \in 1..Len(ps) |-> ToolResult(ps[i])]

Running(t) == {i \in DOMAIN pending[t] : pending[t][i].status = "running"}
Failed(t) == {i \in DOMAIN pending[t] : pending[t][i].status = "error"}
FirstFailed(t) == CHOOSE i \in Failed(t) : \A j \in Failed(t) : i <= j

----------------------------------------------------------------------------
(* Initial states: the module is imported and WikipediaAgent() constructed *)

----------------------------------------------------------------------------
(* The terminal interface: main() of app_terminal.py *)

Whitespace == {" ", "\t", "\n"}
UpperCase == "ABCDEFGHIJKLMNOPQRSTUVWXYZ"
LowerCase == "abcdefghijklmnopqrstuvwxyz"

\* str.strip(): the text without its leading and trailing whitespace
RECURSIVE LStrip(_)
LStrip(s) ==
    IF Len(s) > 0 /\ SubSeq(s, 1, 1) \in Whitespace
    THEN LStrip(SubSeq(s, 2, Len(s)))
    ELSE s
RECURSIVE RStrip(_)
RStrip(s) ==
    IF Len(s) > 0 /\ SubSeq(s, Len(s), Len(s)) \in Whitespace
    THEN RStrip(SubSeq(s, 1, Len(s) - 1))
    ELSE s
Strip(s) == RStrip(LStrip(s))

\* str.lower(): every upper-case letter replaced by its lower-case letter
LowerChar(c) ==
    IF \E i \in 1..Len(UpperCase) : SubSeq(UpperCase, i, i) = c
    THEN LET i == CHOOSE j \in 1..Len(UpperCase) : SubSeq(UpperCase, j, j) = c
         IN SubSeq(LowerCase, i, i)
    ELSE c
RECURSIVE Lower(_)
Lower(s) ==
    IF Len(s) = 0 THEN s
    ELSE LowerChar(SubSeq(s, 1, 1)) \o Lower(SubSeq(s, 2, Len(s)))

\* what the user may type at the prompt
TermLines ==
    {"exit", "quit", "EXIT", " quit", "clear", "Clear ", "", "  ",
     Questions[1], " " \o Questions[1] \o " "}

\* what is written to the terminal: by main, or by query's pretty_print
Shown(who, text) == [by |-> who, text |-> text]
Welcome == Shown("main", "Wikipedia Research Assistant")
Goodbye == Shown("main", "Thank you for using Wikipedia Research Assistant. Goodbye!")
Thinking == Shown("main", "Searching Wikipedia...")
ExitingGracefully == Shown("main", "Exiting gracefully...")
ErrorShown(e) == Shown("main", "Error: " \o e)
EOFError == "EOF when reading a line"

\* the terminal interface is not running
TermOff ==
    [pc |-> "off", got |-> "none", line |-> "", lines |-> 0,
     forwarded |-> <<>>, response |-> "", shown |-> <<>>]

\* main() has constructed the agent, cleared the screen and printed the
\* welcome text; it is at its first input()
TermStart == [TermOff EXCEPT !.pc = "prompt", !.shown = <<Welcome>>]

\* message.pretty_print() in query's loop writes the message to the terminal
Printed(tm, msg) ==
    IF tm.pc = "off" THEN tm
    ELSE [tm EXCEPT !.shown = Append(@, Shown("query", msg.content))]

\* the branch main takes for a line
TermCase(l) ==
    LET user_input == Strip(l)
    IN IF Lower(user_input) \in {"exit", "quit"} THEN "exit"
       ELSE IF Lower(user_input) = "clear" THEN "clear"
       ELSE IF user_input = "" THEN "skip"
       ELSE "forward"


\* no query call has been made
InitCalls ==
    /\ memory = [k \in ThreadIds |-> <<>>]
    /\ pc = [t \in ThreadIds |-> "idle"]
    /\ input = [t \in ThreadIds |-> ""]
    /\ message = [t \in ThreadIds |-> Unbound]
    /\ step = [t \in ThreadIds |-> 0]
    /\ pending = [t \in ThreadIds |-> <<>>]
    /\ result = [t \in ThreadIds |-> NoResult]
    /\ failure = [t \in ThreadIds |-> NoFailure]
    /\ base = [t \in ThreadIds |-> <<>>]
    /\ submitted = [t \in ThreadIds |-> <<>>]
    /\ consults = [t \in ThreadIds |-> 0]
    /\ turns = 0

\* the module is imported with some configuration, WikipediaAgent() is not
\* called yet
InitConfig ==
    /\ env = "config"
    /\ keys \in [Providers -> KeyValues]
    /\ USE_RAG \in BOOLEAN
    /\ LLM \in LLMNames \cup {MisspeltLLM}
    /\ agent = "none"
    /\ term = TermOff
    /\ tools = <<>>
    /\ model = ""
    /\ agent_executor = NoExecutor
    /\ InitCalls

InitAgent(e) ==
    /\ env = e
    /\ keys = ValidKeys
    /\ agent = "constructed"
    /\ term = IF e = "terminal" THEN TermStart ELSE TermOff
    /\ USE_RAG \in BOOLEAN
    /\ LLM \in IF e = "wide" THEN {DefaultLLM} ELSE LLMNames
    /\ tools = SelectTools(USE_RAG)
    /\ model = SelectModel(LLM)
    /\ \E handle \in BOOLEAN :
          agent_executor =
              create_react_agent(model, tools, SystemPrompt(USE_RAG), handle)
    /\ memory = [k \in ThreadIds |-> <<>>]
    /\ pc = [t \in ThreadIds |-> "idle"]
    /\ input = [t \in ThreadIds |-> ""]
    /\ message = [t \in ThreadIds |-> Unbound]
    /\ step = [t \in ThreadIds |-> 0]
    /\ pending = [t \in ThreadIds |-> <<>>]
    /\ result = [t \in ThreadIds |-> NoResult]
    /\ failure = [t \in ThreadIds |-> NoFailure]
    /\ base = [t \in ThreadIds |-> <<>>]
    /\ submitted = [t \in ThreadIds |-> <<>>]
    /\ consults = [t \in ThreadIds |-> 0]
    /\ turns = 0

Init == InitAgent("wide")

----------------------------------------------------------------------------
(* Actions *)

\* WikipediaAgent(): the tool is built, then the binding, then the executor;
\* an exception of either leaves __init__ and no agent is produced
Construct ==
    /\ env = "config"
    /\ agent = "none"
    /\ \E b \in BindingOutcomes(keys[ProviderOf(SelectModel(LLM))]),
          handle \in BOOLEAN :
          IF RagToolOutcome(USE_RAG, keys) = "raise" \/ b = "raise"
          THEN /\ agent' = "failed"
               /\ UNCHANGED <<tools, model, agent_executor>>
          ELSE /\ agent' = "constructed"
               /\ tools' = SelectTools(USE_RAG)
               /\ model' = SelectModel(LLM)
               /\ agent_executor' =
                     create_react_agent(SelectModel(LLM), SelectTools(USE_RAG),
                                        SystemPrompt(USE_RAG), handle)
    /\ UNCHANGED <<env, keys, term, USE_RAG, LLM, memory, pc, input, message,
                   step, pending, result, failure, base, submitted, consults,
                   turns>>

\* query(input_text, thread_id) is called: the run loads the checkpoint of
\* the thread, appends the user message, saves it, and the stream yields that
\* state to the for loop. The calls of one thread id follow one another.
QueryCall(t, text, tm) ==
    /\ agent = "constructed"
    /\ t \in Threads
    /\ pc[t] \in {"idle", "Done"}
    /\ LET k == ThreadKey(t)
           history == add_messages(memory[k], <<HumanMessage(text)>>)
       IN /\ memory' = [memory EXCEPT ![k] = history]
          /\ message' = [message EXCEPT ![t] = LoopBody(history)]
          /\ base' = [base EXCEPT ![t] = memory[k]]
          /\ term' = Printed(tm, LoopBody(history))
    /\ pc' = [pc EXCEPT ![t] = "AwaitingModel"]
    /\ input' = [input EXCEPT ![t] = text]
    /\ step' = [step EXCEPT ![t] = 0]
    /\ pending' = [pending EXCEPT ![t] = <<>>]
    /\ result' = [result EXCEPT ![t] = NoResult]
    /\ failure' = [failure EXCEPT ![t] = NoFailure]
    /\ turns' = turns + 1
    /\ UNCHANGED <<config, submitted, consults>>

\* a caller other than the terminal interface calls query
Query(t, text) ==
    /\ env \in {"wide", "tools", "deep", "config"}
    /\ turns < TurnLimit
    /\ QueryCall(t, text, term)

\* AwaitingModel: the agent node submits the history of the thread to the
\* model. The model raises, answers, or asks for tools; an answer ends the
\* stream and query returns its content.
CallModel(t) ==
    /\ pc[t] = "AwaitingModel"
    /\ LET k == ThreadKey(t)
           history == memory[k]
       IN \E resp \in ModelResponses(t) :
            /\ submitted' = [submitted EXCEPT ![t] = history]
            /\ consults' = [consults EXCEPT ![t] = @ + 1]
            /\ IF resp.kind = "error"
               THEN LET outcome == Try([kind |-> "raise", value |-> resp.error])
                    IN /\ result' = [result EXCEPT ![t] = outcome]
                       /\ failure' = [failure EXCEPT ![t] = Raised(resp.error)]
                       /\ pc' = [pc EXCEPT ![t] = AfterTry(outcome)]
                       /\ memory' = [memory EXCEPT ![k] = Checkpointed(history)]
                       /\ UNCHANGED <<message, step, pending, term>>
               ELSE LET m == AgentNode(resp, Len(history) + 1, IsLastStep(t))
                        after == add_messages(history, <<m>>)
                        outcome == Try(AfterLoop(LoopBody(after)))
                    IN /\ memory' = [memory EXCEPT ![k] = after]
                       /\ message' = [message EXCEPT ![t] = LoopBody(after)]
                       /\ term' = Printed(term, LoopBody(after))
                       /\ step' = [step EXCEPT ![t] = @ + 1]
                       /\ IF ShouldContinue(m) = "continue"
                          THEN /\ pc' = [pc EXCEPT ![t] = "ExecutingTools"]
                               /\ pending' = [pending EXCEPT ![t] =
                                     [i \in 1..Len(m.tool_calls) |->
                                         ToolStart(m.tool_calls[i])]]
                               /\ UNCHANGED <<result, failure>>
                          ELSE /\ pc' = [pc EXCEPT ![t] = AfterTry(outcome)]
                               /\ result' = [result EXCEPT ![t] = outcome]
                               /\ failure' = [failure EXCEPT ![t] =
                                     Met(AfterLoop(LoopBody(after)))]
                               /\ UNCHANGED pending
    /\ UNCHANGED <<config, input, base, turns>>

\* ExecutingTools: one lookup of one of the requested tool calls; the calls
\* of one model response run side by side in the tools node
Lookup(t, i) ==
    /\ pc[t] = "ExecutingTools"
    /\ i \in Running(t)
    /\ Len(pending[t][i].looked) < Len(pending[t][i].queries)
    /\ LET p == pending[t][i]
       IN \E o \in LookupOutcomes :
            pending' = [pending EXCEPT ![t][i] =
                IF o = "ok"
                THEN AfterLookup(p, WikipediaRun(p.name, NextQuery(p)))
                ELSE LookupRaises(p, o)]
    /\ UNCHANGED <<config, term, memory, pc, input, message, step, result, failure,
                   base, submitted, consults, turns>>

\* ExecutingTools: a tool call has looked up all its queries and returns
ToolCallReturns(t, i) ==
    /\ pc[t] = "ExecutingTools"
    /\ i \in Running(t)
    /\ Len(pending[t][i].looked) = Len(pending[t][i].queries)
    /\ pending' = [pending EXCEPT ![t][i] = ToolReturn(pending[t][i])]
    /\ UNCHANGED <<config, term, memory, pc, input, message, step, result, failure,
                   base, submitted, consults, turns>>

\* ExecutingTools: every requested call has ended. The tools node writes its
\* messages and the stream yields the state; or the exception of a failed
\* call leaves the executor and query catches it.
ToolsNode(t) ==
    /\ pc[t] = "ExecutingTools"
    /\ Running(t) = {}
    /\ IF Failed(t) # {} /\ ~agent_executor.handle_tool_errors
       THEN LET e == pending[t][FirstFailed(t)].error
                k == ThreadKey(t)
                outcome == Try([kind |-> "raise", value |-> e])
            IN /\ result' = [result EXCEPT ![t] = outcome]
               /\ failure' = [failure EXCEPT ![t] = Raised(e)]
               /\ pc' = [pc EXCEPT ![t] = AfterTry(outcome)]
               /\ memory' = [memory EXCEPT ![k] = Checkpointed(memory[k])]
               /\ UNCHANGED <<message, step, pending, term>>
       ELSE LET k == ThreadKey(t)
                after == add_messages(memory[k], ToolResults(pending[t]))
            IN /\ memory' = [memory EXCEPT ![k] = after]
               /\ message' = [message EXCEPT ![t] = LoopBody(after)]
               /\ term' = Printed(term, LoopBody(after))
               /\ step' = [step EXCEPT ![t] = @ + 1]
               /\ pc' = [pc EXCEPT ![t] = "AwaitingModel"]
               /\ pending' = [pending EXCEPT ![t] = <<>>]
               /\ UNCHANGED <<result, failure>>
    /\ UNCHANGED <<config, input, base, submitted, consults, turns>>

\* main reads a line at the prompt and handles it: it exits, clears the
\* screen, skips the line, or calls agent.query with the stripped line
ReadLine(l) ==
    /\ env = "terminal"
    /\ term.pc = "prompt"
    /\ term.lines < MaxLines
    /\ LET user_input == Strip(l)
           read == [term EXCEPT !.got = "line", !.line = l, !.lines = @ + 1]
       IN CASE TermCase(l) = "exit" ->
                 /\ term' = [read EXCEPT !.pc = "exited",
                                         !.shown = Append(@, Goodbye)]
                 /\ UNCHANGED <<config, memory, pc, input, message, step,
                                pending, result, failure, base, submitted,
                                consults, turns>>
            [] TermCase(l) = "clear" ->
                 /\ term' = [read EXCEPT !.shown = <<Welcome>>]
                 /\ UNCHANGED <<config, memory, pc, input, message, step,
                                pending, result, failure, base, submitted,
                                consults, turns>>
            [] TermCase(l) = "skip" ->
                 /\ term' = read
                 /\ UNCHANGED <<config, memory, pc, input, message, step,
                                pending, result, failure, base, submitted,
                                consults, turns>>
            [] OTHER ->
                 QueryCall(DefaultThreadId, user_input,
                           [read EXCEPT !.pc = "querying",
                                        !.forwarded = Append(@, user_input),
                                        !.shown = Append(@, Thinking)])

\* agent.query returns: main binds the string to response and goes back to
\* the prompt; the lines that would print the response are comments
TermReturned ==
    /\ env = "terminal"
    /\ term.pc = "querying"
    /\ pc[DefaultThreadId] = "Done"
    /\ term' = [term EXCEPT !.pc = "prompt",
                            !.response = result[DefaultThreadId].value]
    /\ UNCHANGED <<config, memory, pc, input, message, step, pending, result,
                   failure, base, submitted, consults, turns>>

\* input() raises at the end of the input: except Exception prints the error
\* and the loop goes on
EndOfInput ==
    /\ env = "terminal"
    /\ term.pc = "prompt"
    /\ term.lines < MaxLines
    /\ term' = [term EXCEPT !.got = "eof", !.lines = @ + 1,
                            !.shown = Append(@, ErrorShown(EOFError))]
    /\ UNCHANGED <<config, memory, pc, input, message, step, pending, result,
                   failure, base, submitted, consults, turns>>

\* the user presses Ctrl-C, at the prompt or while query runs: query's
\* except Exception does not catch KeyboardInterrupt, main's handler exits
Interrupt ==
    /\ env = "terminal"
    /\ term.pc \in {"prompt", "querying"}
    /\ term' = [term EXCEPT !.pc = "exited", !.got = "interrupt",
                            !.shown = Append(@, ExitingGracefully)]
    /\ pc' = IF term.pc = "querying" /\ pc[DefaultThreadId] # "Done"
             THEN [pc EXCEPT ![DefaultThreadId] = "escaped"]
             ELSE pc
    /\ UNCHANGED <<config, memory, input, message, step, pending, result,
                   failure, base, submitted, consults, turns>>

\* query is called on an agent whose executor is a test double: the stream
\* is whatever the double makes it
StubQuery(t, text) ==
    /\ env = "stub"
    /\ t \in Threads
    /\ pc[t] \in {"idle", "Done"}
    /\ turns < TurnLimit
    /\ pc' = [pc EXCEPT ![t] = "Streaming"]
    /\ input' = [input EXCEPT ![t] = text]
    /\ message' = [message EXCEPT ![t] = Unbound]
    /\ step' = [step EXCEPT ![t] = 0]
    /\ result' = [result EXCEPT ![t] = NoResult]
    /\ failure' = [failure EXCEPT ![t] = NoFailure]
    /\ base' = [base EXCEPT ![t] = memory[ThreadKey(t)]]
    /\ turns' = turns + 1
    /\ UNCHANGED <<config, term, memory, pending, submitted, consults>>

\* the stubbed stream yields a state: one iteration of the for loop
StubYield(t, m) ==
    /\ pc[t] = "Streaming"
    /\ step[t] < MaxYields
    /\ message' = [message EXCEPT ![t] = LoopBody(<<HumanMessage(input[t]), m>>)]
    /\ step' = [step EXCEPT ![t] = @ + 1]
    /\ UNCHANGED <<config, term, memory, pc, input, pending, result, failure, base,
                   submitted, consults, turns>>

\* the stubbed stream raises e: the except clause of query
StubRaise(t, e) ==
    /\ pc[t] = "Streaming"
    /\ LET outcome == Try([kind |-> "raise", value |-> e])
       IN /\ result' = [result EXCEPT ![t] = outcome]
          /\ pc' = [pc EXCEPT ![t] = AfterTry(outcome)]
    /\ failure' = [failure EXCEPT ![t] = Raised(e)]
    /\ UNCHANGED <<config, term, memory, input, message, step, pending, base,
                   submitted, consults, turns>>

\* the stubbed stream is exhausted: the code after the for loop
StubEnd(t) ==
    /\ pc[t] = "Streaming"
    /\ LET outcome == Try(AfterLoop(message[t]))
       IN /\ result' = [result EXCEPT ![t] = outcome]
          /\ pc' = [pc EXCEPT ![t] = AfterTry(outcome)]
    /\ failure' = [failure EXCEPT ![t] = Met(AfterLoop(message[t]))]
    /\ UNCHANGED <<config, term, memory, input, message, step, pending, base,
                   submitted, consults, turns>>

\* what a stubbed stream may yield as the last message of a state
YieldedMessages ==
    {AIMessage(c, NoCalls) : c \in AnswerTexts}
    \cup {ToolMessage("Test result", "wikipedia_search", CallId(2, 1), "success"),
          TupleMessage}

\* what a stubbed stream may raise
StreamErrors == ModelErrors \cup LookupErrors \cup {""}

NextFacade ==
    \E t \in ThreadIds :
        \/ \E text \in Inputs(env, turns) : StubQuery(t, text)
        \/ \E m \in YieldedMessages : StubYield(t, m)
        \/ \E e \in StreamErrors : StubRaise(t, e)
        \/ StubEnd(t)

Next ==
    \E t \in ThreadIds :
        \/ \E text \in Inputs(env, turns) : Query(t, text)
        \/ CallModel(t)
        \/ \E i \in DOMAIN pending[t] : Lookup(t, i)
        \/ \E i \in DOMAIN pending[t] : ToolCallReturns(t, i)
        \/ ToolsNode(t)

Spec == Init /\ [][Next]_vars

\* the terminal interface: the user types lines, main handles them
NextTerminal ==
    \/ \E l \in TermLines : ReadLine(l)
    \/ TermReturned
    \/ EndOfInput
    \/ Interrupt
    \/ CallModel(DefaultThreadId)
    \/ \E i \in DOMAIN pending[DefaultThreadId] : Lookup(DefaultThreadId, i)
    \/ \E i \in DOMAIN pending[DefaultThreadId] :
          ToolCallReturns(DefaultThreadId, i)
    \/ ToolsNode(DefaultThreadId)
InitTerminal == InitAgent("terminal")
SpecTerminal == InitTerminal /\ [][NextTerminal]_vars

\* construction under any configuration, then one query call
NextConfig == Construct \/ Next
SpecConfig == InitConfig /\ [][NextConfig]_vars

\* one query call whose model responses ask for several tool calls at once
InitTools == InitAgent("tools")
SpecTools == InitTools /\ [][Next]_vars

\* query calls on a stubbed executor
InitFacade == InitAgent("stub")
SpecFacade == InitFacade /\ [][NextFacade]_vars

\* one query call whose model keeps asking for tools
InitLoop == InitAgent("deep")
SpecLoop == InitLoop /\ [][Next]_vars

----------------------------------------------------------------------------
(* Properties *)

ErrorText(e) == "An error occurred: " \o e

\* the text "\n\n".join gives for up to four results, written out
ExpectedJoin(r) ==
    CASE Len(r) = 0 -> ""
      [] Len(r) = 1 -> r[1]
      [] Len(r) = 2 -> r[1] \o "\n\n" \o r[2]
      [] Len(r) = 3 -> r[1] \o "\n\n" \o r[2] \o "\n\n" \o r[3]
      [] OTHER -> r[1] \o "\n\n" \o r[2] \o "\n\n" \o r[3] \o "\n\n" \o r[4]

\* the text a tool call returns when every lookup returns
ExpectedOutput(call) ==
    ExpectedJoin([j \in 1..Len(call.queries) |->
                     WikipediaRun(call.name, call.queries[j])])

RequestsTools(m) == m.type = "ai" /\ m.tool_calls # NoCalls

\* the position of the last message of h that requests tools
LastRequest(h) ==
    CHOOSE a \in 1..Len(h) :
        /\ RequestsTools(h[a])
        /\ \A j \in (a + 1)..Len(h) : ~RequestsTools(h[j])

C2_NonEmptyString ==
    \A t \in ThreadIds :
        (pc[t] = "Done" /\ input[t] # "") =>
            (result[t].kind = "return" /\ result[t].value # "")

\* C3: the history submitted to the model is append-only and chronological:
\* the stored history of a thread only grows at its end, and the history of
\* each consultation has that of the previous consultation of the thread as a
\* strict prefix.
C3_HistoryAppendOnly ==
    [][\A t \in ThreadIds :
          /\ IsPrefix(memory[t], memory'[t])
          /\ consults'[t] # consults[t] =>
                /\ submitted'[t] = memory[t]
                /\ IsStrictPrefix(submitted[t], submitted'[t])]_vars

\* C3 witness: the second call on a thread has consulted the model with the
\* user and assistant messages of the first call followed by its own
C3_Witness ==
    \E t \in ThreadIds :
        /\ consults[t] >= 2
        /\ Len(base[t]) >= 2
        /\ base[t][1] = HumanMessage(Questions[1])
        /\ base[t][Len(base[t])].type = "ai"
        /\ submitted[t] = base[t] \o <<HumanMessage(input[t])>>
        /\ input[t] = Questions[2]

\* C4: threads are isolated: a step changes the history of a thread only if
\* it is a step of the query call on that thread, and then changes no other
\* thread's history; a thread never queried has an empty history and its
\* first query starts from the empty history.
C4_ThreadsIsolated ==
    [][\A t \in ThreadIds :
          /\ pc[t] = "idle" => memory[t] = <<>>
          /\ memory'[t] # memory[t] =>
                /\ pc'[t] # pc[t]
                /\ \A u \in ThreadIds \ {t} :
                      memory'[u] = memory[u] /\ pc'[u] = pc[u]
          /\ (pc[t] = "idle" /\ pc'[t] # "idle") =>
                /\ base'[t] = <<>>
                /\ memory'[t] = <<HumanMessage(input'[t])>>]_vars

\* C4 witness: two calls with distinct thread ids are in their tools step at
\* the same time, each thread holding its own question only
C4_Witness ==
    \E a \in ThreadIds, b \in ThreadIds :
        /\ a # b
        /\ pc[a] = "ExecutingTools" /\ pc[b] = "ExecutingTools"
        /\ memory[a][1] = HumanMessage(input[a])
        /\ memory[b][1] = HumanMessage(input[b])
        /\ input[a] # input[b]
        /\ Len(memory[a]) = 2 /\ Len(memory[b]) = 2

\* C5 (as stated): the tool calls of one model response are invoked strictly
\* one after another: a call does nothing before the calls requested before
\* it have ended.
C5_StrictlySequential ==
    \A t \in ThreadIds :
        \A i \in DOMAIN pending[t], j \in DOMAIN pending[t] :
            (i < j /\ pending[t][i].status = "running") =>
                (pending[t][j].looked = <<>> /\ pending[t][j].status = "running")

\* C5 (amended): the tool calls of one model response are all carried out
\* before the model is consulted again; while they run nothing is appended;
\* then one tool message per call is appended in the order the model asked,
\* each correlated to its call and, when the call returned, carrying the text
\* the tool returned, and the next consultation has them in its history.
C5_ResultsInRequestOrder ==
    \A t \in ThreadIds :
        /\ pc[t] = "ExecutingTools" =>
              LET h == memory[t]
              IN /\ RequestsTools(h[Len(h)])
                 /\ Len(h[Len(h)].tool_calls) = Len(pending[t])
        /\ pc[t] = "AwaitingModel" => pending[t] = <<>>
        /\ (pc[t] = "AwaitingModel" /\ step[t] > 0) =>
              LET h == memory[t]
                  a == LastRequest(h)
                  calls == h[a].tool_calls
              IN /\ Len(h) = a + Len(calls)
                 /\ \A i \in 1..Len(calls) :
                       /\ h[a + i].type = "tool"
                       /\ h[a + i].tool_call_id = calls[i].id
                       /\ h[a + i].name = calls[i].name
                       /\ h[a + i].status = "success" =>
                             h[a + i].content = ExpectedOutput(calls[i])

\* C5 witness: after a response that asked for two calls, the model is about
\* to be consulted with both results
C5_Witness ==
    \E t \in ThreadIds :
        /\ pc[t] = "AwaitingModel" /\ step[t] = 2
        /\ Len(memory[t]) = 4
        /\ memory[t][3].status = "success" /\ memory[t][4].status = "success"
        /\ memory[t][3].content # memory[t][4].content

\* C6 (as stated): the loop has no maximum number of tool-call rounds: a call
\* that ends without a failure returns an answer of the model, after however
\* many rounds.
C6_AnswerAfterAnyRounds ==
    \A t \in ThreadIds :
        (pc[t] = "Done" /\ ~failure[t].raised) => result[t].value \in AnswerTexts

\* C6 (amended): the loop goes on for as long as the model asks for tools and
\* the run is below the step limit of the executor (25 supersteps, query sets
\* none): it ends with the model's answer only on a response without a tool
\* call, after any number of rounds below the limit; at the limit a response
\* that asks for tools ends the call with the executor's own message.
C6_LoopUntilAnswerOrStepLimit ==
    \A t \in ThreadIds :
        /\ step[t] <= RecursionLimit
        /\ pc[t] = "ExecutingTools" =>
              /\ RequestsTools(memory[t][Len(memory[t])])
              /\ step[t] < RecursionLimit
        /\ (pc[t] = "Done" /\ ~failure[t].raised) =>
              LET m == memory[t][Len(memory[t])]
              IN /\ m.type = "ai" /\ m.tool_calls = NoCalls
                 /\ result[t] = [kind |-> "return", value |-> m.content]
                 /\ Len(memory[t]) = Len(base[t]) + 1 + step[t]
                 /\ \/ m.content \in AnswerTexts
                    \/ m.content = NeedMoreSteps /\ step[t] = RecursionLimit

\* C6 witness: the model's answer is returned after eleven tool-call rounds
C6_Witness ==
    \E t \in ThreadIds :
        /\ pc[t] = "Done" /\ ~failure[t].raised
        /\ step[t] = RecursionLimit - 2
        /\ result[t].value \in AnswerTexts \ {""}
        /\ Len(memory[t]) = RecursionLimit - 1

\* C7: wikipedia_search issues exactly one lookup per query, in input order,
\* and returns the lookup results joined by a blank line in input order; a
\* single query gives its result with no separator, an empty list gives the
\* empty string without any lookup.
C7_JoinedInInputOrder ==
    \A t \in ThreadIds :
        \A i \in DOMAIN pending[t] :
            LET p == pending[t][i]
            IN p.name = "wikipedia_search" =>
                 /\ p.looked = SubSeq(p.queries, 1, Len(p.looked))
                 /\ \A j \in DOMAIN p.results :
                       p.results[j] = "Page: " \o p.queries[j]
                 /\ p.status = "running" => Len(p.results) = Len(p.looked)
                 /\ p.status = "ok" =>
                       /\ p.looked = p.queries
                       /\ Len(p.results) = Len(p.queries)
                       /\ p.output = ExpectedJoin(p.results)
                       /\ p.queries = Q0 => p.output = ""
                       /\ p.queries = Q1 => p.output = "Page: quantum physics"

\* C7 witness: a call with three queries and a call with none have returned
C7_Witness ==
    \E t \in ThreadIds :
        /\ Len(pending[t]) = 2
        /\ pending[t][1].queries = Q0 /\ pending[t][1].status = "ok"
        /\ pending[t][1].looked = <<>> /\ pending[t][1].output = ""
        /\ pending[t][2].queries = Q3 /\ pending[t][2].status = "ok"
        /\ pending[t][2].output =
              "Page: quantum physics\n\nPage: Max Planck\n\nPage: Niels Bohr"

\* C8 (as stated): a failed lookup is caught only at the query boundary: no
\* tool message carrying an error description is handed to the model.
C8_NoErrorToolMessage ==
    \A t \in ThreadIds :
        \A i \in DOMAIN memory[t] :
            memory[t][i].type = "tool" => memory[t][i].status # "error"

\* C8 (amended): when the lookup of the k-th query fails the whole tool call
\* fails: no partial result is returned and the queries after k are not
\* looked up; the failure leaves the tool uncaught and then either reaches
\* the query boundary, where it becomes the returned error text, or is handed
\* to the model by the tools node as a tool message with the error
\* description.
C8_WholeCallFails ==
    \A t \in ThreadIds :
        /\ \A i \in DOMAIN pending[t] :
              LET p == pending[t][i]
              IN /\ p.status = "error" =>
                       /\ p.output = ""
                       /\ p.error \in LookupErrors
                       /\ Len(p.looked) >= 1
                       /\ Len(p.results) = Len(p.looked) - 1
                       /\ p.looked = SubSeq(p.queries, 1, Len(p.looked))
                 /\ p.status = "ok" => Len(p.results) = Len(p.queries)
        /\ \A i \in DOMAIN memory[t] :
              LET m == memory[t][i]
              IN (m.type = "tool" /\ m.status = "error") =>
                    /\ agent_executor.handle_tool_errors
                    /\ \E e \in LookupErrors : m.content = ErrorTemplate(e)
        /\ (pc[t] = "Done" /\ failure[t].raised /\ failure[t].text \in LookupErrors) =>
              /\ ~agent_executor.handle_tool_errors
              /\ result[t] = [kind |-> "return", value |-> ErrorText(failure[t].text)]
              /\ RequestsTools(memory[t][Len(memory[t])])

\* C8 witness: the second of three lookups failed, and the call that asked
\* for them has returned the error text
C8_Witness ==
    \E t \in ThreadIds :
        /\ pc[t] = "Done" /\ failure[t].raised
        /\ \E i \in DOMAIN pending[t] :
              /\ pending[t][i].status = "error"
              /\ pending[t][i].queries = Q3
              /\ Len(pending[t][i].looked) = 2
              /\ Len(pending[t][i].results) = 1

\* C9: a query call that ends on the error path leaves the conversation
\* usable: the failing step removes nothing and the call returns; the
\* messages recorded before the call and its user message stay in place and
\* in order; the next step on that thread is a new query that appends its
\* user message and waits for the model.
C9_ErrorPathKeepsConversation ==
    [][\A t \in ThreadIds :
          /\ pc'[t] # "escaped"
          /\ pc'[t] # "idle" =>
                IsPrefix(base'[t] \o <<HumanMessage(input'[t])>>, memory'[t])
          /\ (pc[t] # "Done" /\ pc'[t] = "Done" /\ failure'[t].raised) =>
                /\ memory'[t] = memory[t]
                /\ result'[t].kind = "return"
          /\ (pc[t] = "Done" /\ failure[t].raised) =>
                /\ IsPrefix(memory[t], memory'[t])
                /\ pc'[t] # pc[t] =>
                      /\ pc'[t] = "AwaitingModel"
                      /\ base'[t] = memory[t]
                      /\ memory'[t] = memory[t] \o <<HumanMessage(input'[t])>>]_vars

\* C9 witness: the call after a call that failed at the model has returned
\* an answer, with the failed call's user message still in the history
C9_Witness ==
    \E t \in ThreadIds :
        /\ pc[t] = "Done" /\ ~failure[t].raised
        /\ base[t] = <<HumanMessage(Questions[1])>>
        /\ result[t].value # ""
        /\ Len(memory[t]) >= 3
        /\ memory[t][2] = HumanMessage(Questions[2])

\* C10: exactly one retrieval tool is registered, chosen by use_rag at
\* construction: the indexed tool "wikipedia_rag" or the direct-search tool;
\* no step of any query call changes the tool list, the model binding or the
\* executor.
C10_OneToolForLife ==
    [][/\ Len(tools') = 1
       /\ tools'[1] = (IF USE_RAG' THEN "wikipedia_rag" ELSE "wikipedia_search")
       /\ agent_executor'.tools = tools'
       /\ agent_executor'.model = model'
       /\ tools' = tools /\ model' = model /\ agent_executor' = agent_executor
       /\ USE_RAG' = USE_RAG]_vars

\* C10 witness: an agent built with use_rag has answered one query and failed
\* another, and its tool list is still the indexed tool alone
C10_Witness ==
    \E a \in ThreadIds, b \in ThreadIds :
        /\ USE_RAG /\ tools = <<"wikipedia_rag">>
        /\ pc[a] = "Done" /\ failure[a].raised
        /\ pc[b] = "Done" /\ ~failure[b].raised /\ step[b] = 3

\* C11: a missing or invalid credential or model name makes construction
\* fail: an agent exists only under a configuration the provider accepts, and
\* no query call returns the provider's refusal of the configuration.
C11_ConfigurationErrorFailsConstruction ==
    /\ agent = "constructed" =>
          (keys[ProviderOf(model)] = ValidKey /\ LLM \in LLMNames)
    /\ \A t \in ThreadIds :
          pc[t] = "Done" =>
              failure[t].text \notin {AuthenticationError, NotFoundError}

\* C12: the terminal loop handles a line by exactly one of three cases: exit
\* and quit end the process without a query call; clear resets the display
\* only, without a query call and without a change of the conversation; every
\* other line is forwarded verbatim to query exactly once, and the string
\* query returns is printed to the user.
C12_ThreeCases ==
    [][/\ (term'.lines = term.lines + 1 /\ term'.got = "line") =>
            IF term'.line \in {"exit", "quit"}
            THEN /\ term'.pc = "exited"
                 /\ term'.forwarded = term.forwarded
                 /\ memory' = memory
            ELSE IF term'.line = "clear"
            THEN /\ term'.pc = "prompt"
                 /\ term'.shown = <<Welcome>>
                 /\ term'.forwarded = term.forwarded
                 /\ memory' = memory
            ELSE /\ term'.pc = "querying"
                 /\ term'.forwarded = Append(term.forwarded, term'.line)
       /\ (term.pc = "querying" /\ term'.pc = "prompt") =>
            \E i \in DOMAIN term'.shown : term'.shown[i].text = term'.response
      ]_vars

\* a history is well-formed with respect to tool calls: every tool message
\* answers a tool call of an earlier assistant message, and every tool call
\* is answered before any later user or assistant message
Correlates(m, a) ==
    /\ m.type = "tool"
    /\ a.type = "ai"
    /\ \E c \in DOMAIN a.tool_calls : a.tool_calls[c].id = m.tool_call_id
Answered(h, j, c) ==
    \E i \in (j + 1)..Len(h) :
        /\ h[i].type = "tool"
        /\ h[i].tool_call_id = h[j].tool_calls[c].id
        /\ \A n \in (j + 1)..(i - 1) : h[n].type = "tool"
WellFormed(h) ==
    /\ \A i \in DOMAIN h :
          h[i].type = "tool" => \E j \in 1..(i - 1) : Correlates(h[i], h[j])
    /\ \A j \in DOMAIN h :
          h[j].type = "ai" => \A c \in DOMAIN h[j].tool_calls : Answered(h, j, c)

====
